---- MODULE Spec2Model ----
(***************************************************************************)
(* A model of the ESC/POS printer driver of src/printer.c: the transport   *)
(* (escpos_printer_raw), the padding calculator, the pixel sampler, the    *)
(* bitmap packer, the upload/print protocol encoder and the chunking       *)
(* orchestrator (escpos_printer_image).                                    *)
(*                                                                         *)
(* Spec     drives one public call (raw, cut, feed or image) through the   *)
(*          transport, one send() per step.                                *)
(* SpecPure applies calculate_padding and convert_to_bit to inputs drawn   *)
(*          from bounded sets.                                             *)
(* SpecPack applies convert_image_to_bits to images drawn from bounded     *)
(*          sets, over buffers with two different initial contents.        *)
(* SpecNet  drives escpos_printer_network and escpos_printer_destroy, one  *)
(*          system call per step, over a bounded descriptor table.         *)
(***************************************************************************)
EXTENDS Integers, Sequences, FiniteSets, TLC

\* ------------------------------------------------------------------------
\* Bounds of the model
\* ------------------------------------------------------------------------
\* longest message handed directly to escpos_printer_raw
MaxLen == 4
\* largest non-zero overlap margin that is tried
MaxOverlap == 8
\* largest image height printed by escpos_printer_image
MaxHeight == 80
\* largest size handed to calculate_padding
MaxSize == 70
\* largest width and height handed directly to convert_image_to_bits
MaxPackW == 33
MaxPackH == 33
\* number of descriptors the process may hold open besides stdin, stdout
\* and stderr
MaxFds == 3

\* ------------------------------------------------------------------------
\* constants.h and error.h (not part of src/): scaled-down printer geometry
\* ------------------------------------------------------------------------
ESCPOS_MAX_DOT_WIDTH == 64
ESCPOS_CHUNK_DOT_HEIGHT == 32
ESCPOS_COMP_G == 1
ESCPOS_COMP_GA == 2
ESCPOS_COMP_RGB == 3
ESCPOS_COMP_RGBA == 4
ESCPOS_CMD_CUT == <<29, 86, 1>>
ESCPOS_CMD_FEED == <<27, 100>>
ESCPOS_CMD_DEFINE_DL_BIT_IMAGE == <<29, 42>>
ESCPOS_CMD_PRINT_DL_BIT_IMAGE == <<29, 47, 0>>
ESCPOS_ERROR_NONE == "NONE"
ESCPOS_ERROR_SOCK == "SOCK"
ESCPOS_ERROR_INVALID_ADDR == "INVALID_ADDR"
ESCPOS_ERROR_CONNECTION_FAILED == "CONNECTION_FAILED"
ESCPOS_ERROR_SEND_FAILED == "SEND_FAILED"
ESCPOS_ERROR_IMAGE_UPLOAD_FAILED == "IMAGE_UPLOAD_FAILED"
ESCPOS_ERROR_IMAGE_PRINT_FAILED == "IMAGE_PRINT_FAILED"

\* ------------------------------------------------------------------------
\* C integer arithmetic: / and % truncate towards zero
\* ------------------------------------------------------------------------
CDiv(a, b) ==
    IF a >= 0 THEN a \div b ELSE -((-a) \div b)

CMod(a, b) ==
    a - b * CDiv(a, b)

Pow2(i) ==
    2 ^ i

\* bit i of an unsigned char
BitOf(byte, i) ==
    (byte \div Pow2(i)) % 2

\* ------------------------------------------------------------------------
\* set_bit: *byte |= 1 << i  or  *byte &= ~(1 << i)
\* ------------------------------------------------------------------------
set_bit(byte, i, bit) ==
    IF bit > 0
    THEN (IF BitOf(byte, i) = 1 THEN byte ELSE byte + Pow2(i))
    ELSE (IF BitOf(byte, i) = 1 THEN byte - Pow2(i) ELSE byte)

\* ------------------------------------------------------------------------
\* The decoded image: a row-major buffer of w*h*comp bytes.  The buffer is
\* represented by the kind of its content (or by its bytes); ImageByte is
\* the byte at an offset of it.
\* ------------------------------------------------------------------------
ImageByte(pat, off) ==
    CASE pat.kind = "bytes" -> pat.data[off + 1]
      [] pat.kind = "white" -> 255
      [] pat.kind = "black" -> 0
      [] pat.kind = "edge" -> (IF off % 2 = 0 THEN 127 ELSE 128)
      [] OTHER -> (off * 53 + 11) % 256

\* ------------------------------------------------------------------------
\* convert_to_bit: pixel points at offset off of the image buffer
\* ------------------------------------------------------------------------
\* variant: the threshold includes 128
convert_to_bit_Inclusive(pat, off, comp) ==
    IF comp = ESCPOS_COMP_G \/ comp = ESCPOS_COMP_GA
    THEN (IF ImageByte(pat, off) <= 128 THEN 1 ELSE 0)
    ELSE LET r == ImageByte(pat, off)
             g == ImageByte(pat, off + 1)
             b == ImageByte(pat, off + 2)
         IN IF CDiv(r + g + b, 3) <= 128 THEN 1 ELSE 0

convert_to_bit(pat, off, comp) ==
    IF comp = ESCPOS_COMP_G \/ comp = ESCPOS_COMP_GA
    THEN (IF ImageByte(pat, off) < 128 THEN 1 ELSE 0)
    ELSE LET r == ImageByte(pat, off)
             g == ImageByte(pat, off + 1)
             b == ImageByte(pat, off + 2)
         IN IF CDiv(r + g + b, 3) < 128 THEN 1 ELSE 0

\* ------------------------------------------------------------------------
\* calculate_padding
\* ------------------------------------------------------------------------
\* variant: the odd unit of the padding is dropped
calculate_padding_Odd(size) ==
    IF CMod(size, 32) = 0
    THEN [l |-> 0, r |-> 0]
    ELSE LET padding == 32 - CMod(size, 32)
         IN [l |-> CDiv(padding, 2), r |-> CDiv(padding, 2)]

\* variant: the odd unit of the padding goes to the left
calculate_padding_Left(size) ==
    IF CMod(size, 32) = 0
    THEN [l |-> 0, r |-> 0]
    ELSE LET padding == 32 - CMod(size, 32)
         IN [l |-> CDiv(padding, 2) + (IF CMod(padding, 2) = 0 THEN 0 ELSE 1),
             r |-> CDiv(padding, 2)]

calculate_padding(size) ==
    IF CMod(size, 32) = 0
    THEN [l |-> 0, r |-> 0]
    ELSE LET padding == 32 - CMod(size, 32)
         IN [l |-> CDiv(padding, 2),
             r |-> CDiv(padding, 2) + (IF CMod(padding, 2) = 0 THEN 0 ELSE 1)]

\* ------------------------------------------------------------------------
\* convert_image_to_bits
\* ------------------------------------------------------------------------
\* the locals of convert_image_to_bits before its loops (lines 155-163)
PackLocals(pat, off, w, h, comp) ==
    LET pw == calculate_padding(w)
        ph == calculate_padding(h)
        padding_b == ph.r + ph.l
    IN [pat |-> pat, off |-> off, w |-> w, h |-> h, comp |-> comp,
        padding_l |-> pw.l, padding_r |-> pw.r, padding_b |-> padding_b,
        padded_h |-> h + padding_b]

\* The three loop nests "for x < columns, for y < padded_h" of lines
\* 165-190: their column counts, the bit index pi of an iteration and the
\* bit it writes.
\* variant: the right padding columns are not written
LoopColumns_NoRight(a, loop) ==
    CASE loop = "left" -> a.padding_l
      [] loop = "image" -> a.w
      [] OTHER -> 0

LoopColumns(a, loop) ==
    CASE loop = "left" -> a.padding_l
      [] loop = "image" -> a.w
      [] OTHER -> a.padding_r

\* variant: the image columns do not skip the left padding columns
LoopPi_NoLeft(a, loop, x, y) ==
    CASE loop = "left" -> (x * a.padded_h) + y
      [] loop = "image" -> (x * a.padded_h) + y
      [] OTHER -> (a.padding_l * a.padded_h) + (a.w * a.padded_h) + (x * a.padded_h) + y

LoopPi(a, loop, x, y) ==
    CASE loop = "left" -> (x * a.padded_h) + y
      [] loop = "image" -> (a.padding_l * a.padded_h) + (x * a.padded_h) + y
      [] OTHER -> (a.padding_l * a.padded_h) + (a.w * a.padded_h) + (x * a.padded_h) + y

LoopBit(a, loop, x, y) ==
    IF loop = "image"
    THEN (IF y < a.h
          THEN convert_to_bit(a.pat, a.off + (y * a.w * a.comp) + (x * a.comp), a.comp)
          ELSE 0)
    ELSE 0

\* Iteration number k of a loop nest (k = 0 is x = 0, y = 0) has
\* x = k / padded_h and y = k % padded_h; the nest runs it when x is below
\* its column count.  pi grows by one with every iteration of a nest, so
\* the only iteration that can have pi = p is number p - pi(0, 0).
Runs(a, loop, k) ==
    /\ a.padded_h > 0
    /\ k >= 0
    /\ k \div a.padded_h < LoopColumns(a, loop)

\* pixel_bits[curr_byte] after the set_bit calls one loop nest makes on it,
\* in the order the nest makes them (ascending pi): bits 8*curr_byte + j,
\* j = from..7
RECURSIVE ByteAfterLoop(_, _, _, _, _)
ByteAfterLoop(byte, a, loop, curr_byte, from) ==
    IF from > 7
    THEN byte
    ELSE LET k == (curr_byte * 8 + from) - LoopPi(a, loop, 0, 0)
         IN IF Runs(a, loop, k)
            THEN LET x == k \div a.padded_h
                     y == k % a.padded_h
                     pi == LoopPi(a, loop, x, y)
                 IN ByteAfterLoop(
                        IF CDiv(pi, 8) = curr_byte
                        THEN set_bit(byte, 7 - CMod(pi, 8), LoopBit(a, loop, x, y))
                        ELSE byte,
                        a, loop, curr_byte, from + 1)
            ELSE ByteAfterLoop(byte, a, loop, curr_byte, from + 1)

\* pixel_bits[curr_byte], holding byte before the call, after the writes of
\* the left, the image and the right loop nest, in that order
PackedByte(byte, a, curr_byte) ==
    ByteAfterLoop(
        ByteAfterLoop(
            ByteAfterLoop(byte, a, "left", curr_byte, 0),
            a, "image", curr_byte, 0),
        a, "right", curr_byte, 0)

\* the buffer the function leaves; writes outside the buffer are left to
\* WritesInBounds
convert_image_to_bits(bits, pat, off, w, h, comp) ==
    LET a == PackLocals(pat, off, w, h, comp)
    IN [curr_byte \in DOMAIN bits |-> PackedByte(bits[curr_byte], a, curr_byte)]

\* offsets, relative to pixel, of the bytes convert_to_bit reads
\* (lines 108, 114-116)
PixelReads(comp) ==
    IF comp = ESCPOS_COMP_G \/ comp = ESCPOS_COMP_GA THEN {0} ELSE {0, 1, 2}

NoReads ==
    [lo |-> 0, hi |-> -1]

\* lowest and highest offset of image_data that the image loop nest reads
\* (line 177: only for x < w and y < h), joined with an earlier range
ReadsAfterPack(before, off, w, h, comp) ==
    IF w <= 0 \/ h <= 0
    THEN before
    ELSE LET lo == off
             hi == off + ((h - 1) * w * comp) + ((w - 1) * comp)
                       + (CHOOSE r \in PixelReads(comp) :
                              \A q \in PixelReads(comp) : q <= r)
         IN IF before.hi < before.lo
            THEN [lo |-> lo, hi |-> hi]
            ELSE [lo |-> IF lo < before.lo THEN lo ELSE before.lo,
                  hi |-> IF hi > before.hi THEN hi ELSE before.hi]

\* *bitmap_w = w + padding_l + padding_r (line 193)
bitmap_w_out(w) ==
    w + calculate_padding(w).l + calculate_padding(w).r

\* *bitmap_h = h + padding_b (line 194)
bitmap_h_out(h) ==
    h + PackLocals([kind |-> "white"], 0, 1, h, 1).padding_b

\* the largest bit index the loops write, -1 when they write nothing
MaxWrittenBit(w, h) ==
    LET a == PackLocals([kind |-> "white"], 0, w, h, 1)
        cols == a.padding_l + (IF w > 0 THEN w ELSE 0) + a.padding_r
    IN IF a.padded_h <= 0 \/ cols <= 0 THEN -1 ELSE cols * a.padded_h - 1

\* every pixel_bits[curr_byte] of the loops lies inside a buffer of size bytes
WritesInBounds(size, w, h) ==
    CDiv(MaxWrittenBit(w, h), 8) < size

\* ------------------------------------------------------------------------
\* State
\* ------------------------------------------------------------------------
VARIABLES
    overlap,        \* ESCPOS_CHUNK_OVERLAP, fixed when the library is built
    width,          \* the decoded image: width, height, comp, image_data
    height,
    comp,
    image_data,
    op,             \* the public function that was called
    pc,             \* position of the single thread of control
    ret,            \* value returned by the public function
    last_error,     \* the global last_error
    message,        \* escpos_printer_raw: message, len
    total,
    sent,
    bytes,
    raw_ret,        \* where escpos_printer_raw returns to
    raw_result,     \* value returned by escpos_printer_raw
    wire,           \* bytes the stream accepted during the current raw call
    up_w,           \* escpos_printer_upload: w, h, buffer, i, result
    up_h,
    buffer,
    i,
    up_result,
    loaded,         \* escpos_printer_image: image_data != NULL
    y,
    chunk_height,
    bitmap_w,
    bitmap_h,
    result,
    pixel_bits,
    write_failed,   \* some send() returned -1 during the public call
    calls,          \* the escpos_printer_raw calls made so far, with the
                    \* value each returned (-1 while it runs)
    chunks,         \* the row ranges handed to convert_image_to_bits so far
    reads,          \* lowest and highest offset of image_data read so far
    size,           \* calculate_padding: size, *padding_l, *padding_r
    padding_l,
    padding_r,
    bit,            \* convert_to_bit: returned bit
    fds,            \* descriptors the process holds open
    printers,       \* live escpos_printer objects: handle -> sockfd
    sockfd,         \* escpos_printer_network: sockfd, printer
    printer,
    oscalls,        \* socket/inet_pton/connect results of the current or
                    \* last escpos_printer_network call, in call order
    fds_before      \* descriptors open when that call started

cfg == <<overlap, width, height, comp, image_data>>
topv == <<op, ret>>
rawv == <<message, total, sent, bytes, raw_ret, raw_result, wire>>
upv == <<up_w, up_h, buffer, i, up_result>>
imgv == <<loaded, y, chunk_height, bitmap_w, bitmap_h, result, pixel_bits>>
hist == <<write_failed, chunks, reads>>
purev == <<size, padding_l, padding_r, bit>>
netv == <<fds, printers, sockfd, printer, oscalls, fds_before>>
vars == <<cfg, topv, pc, last_error, rawv, upv, imgv, hist, calls, purev, netv>>

\* ------------------------------------------------------------------------
\* Inputs
\* ------------------------------------------------------------------------
Overlaps == {0, MaxOverlap}
Widths == {8, 33, 65}
Heights == {1, 32, 40, MaxHeight}
Comps == {ESCPOS_COMP_RGB}
\* content of the uninitialised scratch buffer
Junk == {0, 255}
Messages == {[k \in 1..n |-> 10 + k] : n \in 1..MaxLen}
FeedLines == {0, 3, 255}
PackWidths == {1, 31, 32, MaxPackW}
PackHeights == {1, 32, MaxPackH}
PackKinds == {"white", "mix"}
SamplePixels ==
    {<<a, b, c, d>> : a \in {0, 127, 128}, b \in {0, 128, 255},
                      c \in {0, 129, 255}, d \in {0, 255}}

\* unsigned char pixel_bits[byte_width * ESCPOS_CHUNK_DOT_HEIGHT] (lines 253-255)
ScratchSize == CDiv(ESCPOS_MAX_DOT_WIDTH, 8) * ESCPOS_CHUNK_DOT_HEIGHT

\* size of the buffer a direct caller of the packer supplies for a w x h
\* image: the bytes of the padded bitmap and two more
PackBufSize(w, h) ==
    ((((w + 31) \div 32) * 32 * ((h + 31) \div 32) * 32) \div 8) + 2

\* values send() returns for a request of len bytes: -1, or the number of
\* bytes it accepted (at least one on a blocking stream socket)
SendResults(len) ==
    {-1} \cup (1..len)

\* first descriptor after stdin, stdout and stderr
FirstFd == 3

\* no printer has been connected
NoStream ==
    /\ fds = {}
    /\ printers = [p \in {} |-> -1]
    /\ fds_before = {}

\* the printer handed to the public calls: one live escpos_printer
Connected ==
    /\ fds = {FirstFd}
    /\ printers = [p \in {1} |-> FirstFd]
    /\ fds_before = {}

Idle ==
    /\ pc = "idle" /\ ret = -1
    /\ last_error = ESCPOS_ERROR_NONE
    /\ message = <<>> /\ total = 0 /\ sent = 0 /\ bytes = 0
    /\ raw_ret = "none" /\ raw_result = 0 /\ wire = <<>>
    /\ up_w = 0 /\ up_h = 0 /\ buffer = <<>> /\ i = 0 /\ up_result = 0
    /\ loaded = FALSE /\ y = 0 /\ chunk_height = 0
    /\ bitmap_w = 0 /\ bitmap_h = 0 /\ result = 0
    /\ write_failed = FALSE /\ calls = <<>> /\ chunks = <<>>
    /\ reads = NoReads
    /\ padding_l = 0 /\ padding_r = 0 /\ bit = 0
    /\ sockfd = -1 /\ printer = 0 /\ oscalls = <<>>

Init ==
    /\ Idle
    /\ op = "none"
    /\ size = 0
    /\ overlap \in Overlaps
    /\ width \in Widths
    /\ height \in Heights
    /\ comp \in Comps
    /\ image_data = [kind |-> "mix"]
    /\ \E j \in Junk : pixel_bits = [k \in 0..(ScratchSize - 1) |-> j]
    /\ Connected

\* ------------------------------------------------------------------------
\* escpos_printer_raw
\* ------------------------------------------------------------------------
\* entry of escpos_printer_raw(printer, msg, len): lines 55-57
EnterRaw(kind, off, msg, len, back) ==
    /\ message' = msg
    /\ total' = len
    /\ sent' = 0
    /\ bytes' = 0
    /\ wire' = <<>>
    /\ raw_ret' = back
    /\ calls' = Append(calls, [kind |-> kind, y |-> y, off |-> off, res |-> -1])
    /\ pc' = "raw"
    /\ UNCHANGED raw_result

\* the frame of a returned escpos_printer_raw is gone
LeaveRaw ==
    /\ message' = <<>>
    /\ total' = 0
    /\ sent' = 0
    /\ bytes' = 0
    /\ wire' = <<>>
    /\ raw_ret' = "none"
    /\ UNCHANGED <<raw_result, calls>>

\* one iteration of the while loop (lines 60-68) and, when the loop ends
\* with it (break, or sent < total no longer holds), the return of line 70
RawSend ==
    /\ pc = "raw"
    /\ sent < total
    /\ \E n \in SendResults(total) :
         /\ bytes' = n
         /\ IF n = -1
            THEN /\ last_error' = ESCPOS_ERROR_SEND_FAILED
                 /\ write_failed' = TRUE
                 /\ UNCHANGED <<sent, wire>>
            ELSE /\ sent' = sent + n
                 /\ wire' = wire \o SubSeq(message, 1, n)
                 /\ UNCHANGED <<last_error, write_failed>>
         /\ IF n = -1 \/ ~(sent' < total)
            THEN /\ raw_result' = (IF sent' = total THEN 0 ELSE 1)
                 /\ calls' = [calls EXCEPT ![Len(calls)].res = raw_result']
                 /\ pc' = raw_ret
            ELSE UNCHANGED <<raw_result, calls, pc>>
    /\ UNCHANGED <<cfg, topv, message, total, raw_ret,
                   upv, imgv, chunks, reads, purev, netv>>

\* ------------------------------------------------------------------------
\* The public calls escpos_printer_raw, escpos_printer_cut, escpos_printer_feed
\* ------------------------------------------------------------------------
CallRaw ==
    /\ pc = "idle"
    /\ op' = "raw"
    /\ \E m \in Messages : EnterRaw("raw", 0, m, Len(m), "top_after")
    /\ UNCHANGED <<cfg, ret, last_error, upv, imgv, hist, purev, netv>>

CallCut ==
    /\ pc = "idle"
    /\ op' = "cut"
    /\ EnterRaw("cut", 0, ESCPOS_CMD_CUT, 3, "top_after")
    /\ UNCHANGED <<cfg, ret, last_error, upv, imgv, hist, purev, netv>>

CallFeed ==
    /\ pc = "idle"
    /\ op' = "feed"
    /\ \E lines \in FeedLines :
         EnterRaw("feed", 0, ESCPOS_CMD_FEED \o <<lines>>, 3, "top_after")
    /\ UNCHANGED <<cfg, ret, last_error, upv, imgv, hist, purev, netv>>

\* return escpos_printer_raw(...) of the three public calls
TopReturn ==
    /\ pc = "top_after"
    /\ ret' = raw_result
    /\ pc' = "done"
    /\ LeaveRaw
    /\ UNCHANGED <<cfg, op, last_error, upv, imgv, hist, purev, netv>>

\* ------------------------------------------------------------------------
\* escpos_printer_upload
\* ------------------------------------------------------------------------
\* the assertions of lines 201-204
UploadAsserts(w, h) ==
    /\ w > 0 /\ w <= ESCPOS_CHUNK_DOT_HEIGHT
    /\ h > 0 /\ h <= ESCPOS_CHUNK_DOT_HEIGHT
    /\ CMod(w, 32) = 0
    /\ CMod(h, 32) = 0

\* the 4-byte header of lines 207-210
UploadHeader(w, h) ==
    ESCPOS_CMD_DEFINE_DL_BIT_IMAGE \o <<CDiv(w, 8) % 256, CDiv(h, 8) % 256>>

\* variant: the loop stops one unit early
UploadUnits_Short(w, h) ==
    CDiv(w * CDiv(h, 8), 4) - 1

\* number of 4-byte units of the for loop of line 214
UploadUnits(w, h) ==
    CDiv(w * CDiv(h, 8), 4)

\* the 4 bytes at pixel_bits + (i * 4)
UploadUnit(bits, k) ==
    <<bits[k * 4], bits[k * 4 + 1], bits[k * 4 + 2], bits[k * 4 + 3]>>

\* entry: assertions, header, first escpos_printer_raw (lines 199-213)
UploadEntry ==
    /\ pc = "upload"
    /\ IF UploadAsserts(up_w, up_h)
       THEN /\ buffer' = UploadHeader(up_w, up_h)
            /\ up_result' = 0
            /\ EnterRaw("header", 0, buffer', 4, "upload_after_header")
            /\ UNCHANGED <<up_w, up_h, i>>
       ELSE /\ pc' = "abort"
            /\ UNCHANGED <<rawv, upv, calls>>
    /\ UNCHANGED <<cfg, topv, last_error, imgv, hist, purev, netv>>

\* lines 222-226 with result = r, and the assignment of line 267 in the
\* caller
UploadReturn(r) ==
    /\ last_error' = (IF r # 0 THEN ESCPOS_ERROR_IMAGE_UPLOAD_FAILED
                      ELSE last_error)
    /\ result' = r
    /\ pc' = "image_after_upload"
    /\ LeaveRaw

\* for loop test with i = k, then the data call (lines 214-215) or the
\* end of the loop and the return
UploadLoop(k) ==
    /\ i' = k
    /\ IF k < UploadUnits(up_w, up_h)
       THEN /\ EnterRaw("data", k * 4, UploadUnit(pixel_bits, k), 4, "upload_after_data")
            /\ UNCHANGED <<last_error, result>>
       ELSE UploadReturn(0)

\* result of the header call (line 213), then the loop from i = 0
UploadAfterHeader ==
    /\ pc = "upload_after_header"
    /\ up_result' = raw_result
    /\ IF raw_result = 0
       THEN UploadLoop(0)
       ELSE /\ UploadReturn(raw_result)
            /\ i' = i
    /\ UNCHANGED <<cfg, topv, up_w, up_h, buffer, loaded, y,
                   chunk_height, bitmap_w, bitmap_h, pixel_bits, hist, purev, netv>>

\* result of a data call (lines 215-218), then i++ and the loop
UploadAfterData ==
    /\ pc = "upload_after_data"
    /\ up_result' = raw_result
    /\ IF raw_result # 0
       THEN /\ UploadReturn(raw_result)
            /\ i' = i
       ELSE UploadLoop(i + 1)
    /\ UNCHANGED <<cfg, topv, up_w, up_h, buffer, loaded, y,
                   chunk_height, bitmap_w, bitmap_h, pixel_bits, hist, purev, netv>>

\* ------------------------------------------------------------------------
\* escpos_printer_print
\* ------------------------------------------------------------------------
\* variant: a failed print does not record its own error
PrintReturn_NoError ==
    /\ pc = "print_after"
    /\ result' = raw_result
    /\ pc' = "image_after_print"
    /\ LeaveRaw
    /\ UNCHANGED <<cfg, topv, last_error, upv, loaded, y, chunk_height,
                   bitmap_w, bitmap_h, pixel_bits, hist, purev, netv>>

\* lines 235-239, and the assignment of line 268 in the caller
PrintReturn ==
    /\ pc = "print_after"
    /\ last_error' = (IF raw_result # 0 THEN ESCPOS_ERROR_IMAGE_PRINT_FAILED
                      ELSE last_error)
    /\ result' = raw_result
    /\ pc' = "image_after_print"
    /\ LeaveRaw
    /\ UNCHANGED <<cfg, topv, upv, loaded, y, chunk_height, bitmap_w,
                   bitmap_h, pixel_bits, hist, calls, purev, netv>>

\* ------------------------------------------------------------------------
\* escpos_printer_image
\* ------------------------------------------------------------------------
\* int print_height = ESCPOS_CHUNK_DOT_HEIGHT - ESCPOS_CHUNK_OVERLAP (line 254)
print_height ==
    ESCPOS_CHUNK_DOT_HEIGHT - overlap

\* variant: every chunk has the full capacity
ChunkHeight_Full(yy, h) ==
    ESCPOS_CHUNK_DOT_HEIGHT

\* int chunk_height = ... (line 262)
ChunkHeight(yy, h) ==
    IF (yy + 1) * ESCPOS_CHUNK_DOT_HEIGHT <= h
    THEN ESCPOS_CHUNK_DOT_HEIGHT
    ELSE h - (yy * ESCPOS_CHUNK_DOT_HEIGHT)

\* variant: the cursor advances by the chunk capacity
ChunkStart_Capacity(yy) ==
    yy * ESCPOS_CHUNK_DOT_HEIGHT

\* first source row of the chunk of cursor value yy (line 265)
ChunkStart(yy) ==
    yy * print_height

\* image_data + (y * print_height * width * comp) (line 265)
ChunkOffset(yy) ==
    ChunkStart(yy) * width * comp

\* return result (line 279)
ImageReturn ==
    /\ ret' = result
    /\ pc' = "done"

\* stbi_load and the locals (lines 247-257)
CallImage ==
    /\ pc = "idle"
    /\ op' = "image"
    /\ result' = 0
    /\ y' = 0
    /\ \E ok \in BOOLEAN :
         /\ loaded' = ok
         /\ IF ok
            THEN pc' = "image_while" /\ UNCHANGED ret
            ELSE ret' = 0 /\ pc' = "done"
    /\ UNCHANGED <<cfg, last_error, rawv, upv, chunk_height, bitmap_w,
                   bitmap_h, pixel_bits, hist, calls, purev, netv>>

\* loop test, chunk height, convert_image_to_bits, call of upload
\* (lines 258-267); a write past pixel_bits corrupts the stack
ImageWhile ==
    /\ pc = "image_while"
    /\ IF y * print_height < height
       THEN LET ch == ChunkHeight(y, height)
            IN /\ chunk_height' = ch
               /\ chunks' = Append(chunks, [start |-> ChunkStart(y), height |-> ch])
               /\ reads' = ReadsAfterPack(reads, ChunkOffset(y), width, ch, comp)
               /\ IF WritesInBounds(ScratchSize, width, ch)
                  THEN /\ pixel_bits' = convert_image_to_bits(pixel_bits,
                                            image_data, ChunkOffset(y), width,
                                            ch, comp)
                       /\ bitmap_w' = bitmap_w_out(width)
                       /\ bitmap_h' = bitmap_h_out(ch)
                       /\ up_w' = bitmap_w'
                       /\ up_h' = bitmap_h'
                       /\ pc' = "upload"
                  ELSE /\ pc' = "undefined"
                       /\ UNCHANGED <<pixel_bits, bitmap_w, bitmap_h, up_w, up_h>>
               /\ UNCHANGED ret
       ELSE /\ ImageReturn
            /\ UNCHANGED <<chunk_height, chunks, reads, pixel_bits, bitmap_w,
                           bitmap_h, up_w, up_h>>
    /\ UNCHANGED <<cfg, op, last_error, rawv, buffer, i, up_result, loaded,
                   y, result, write_failed, calls, purev, netv>>

\* variant: the print command is sent whatever the upload returned
ImageAfterUpload_Always ==
    /\ pc = "image_after_upload"
    /\ EnterRaw("print", 0, ESCPOS_CMD_PRINT_DL_BIT_IMAGE, 3, "print_after")
    /\ UNCHANGED <<cfg, op, ret, last_error, upv, imgv, hist, purev, netv>>

\* line 267-269: print after a successful upload, else break and return
ImageAfterUpload ==
    /\ pc = "image_after_upload"
    /\ IF result = 0
       THEN /\ EnterRaw("print", 0, ESCPOS_CMD_PRINT_DL_BIT_IMAGE, 3, "print_after")
            /\ UNCHANGED ret
       ELSE /\ ImageReturn
            /\ UNCHANGED <<rawv, calls>>
    /\ UNCHANGED <<cfg, op, last_error, upv, imgv, hist, purev, netv>>

\* lines 271-275: break and return, or the next chunk
ImageAfterPrint ==
    /\ pc = "image_after_print"
    /\ IF result # 0
       THEN /\ ImageReturn
            /\ y' = y
       ELSE /\ y' = y + 1
            /\ pc' = "image_while"
            /\ UNCHANGED ret
    /\ UNCHANGED <<cfg, op, last_error, rawv, upv, loaded, chunk_height,
                   bitmap_w, bitmap_h, result, pixel_bits, hist, calls, purev, netv>>

Next ==
    \/ CallRaw
    \/ CallCut
    \/ CallFeed
    \/ CallImage
    \/ RawSend
    \/ TopReturn
    \/ UploadEntry
    \/ UploadAfterHeader
    \/ UploadAfterData
    \/ PrintReturn
    \/ ImageWhile
    \/ ImageAfterUpload
    \/ ImageAfterPrint

Spec == Init /\ [][Next]_vars

\* ------------------------------------------------------------------------
\* The pure functions applied to inputs drawn from bounded sets
\* ------------------------------------------------------------------------
InitPure ==
    /\ Idle
    /\ NoStream
    /\ overlap = 0
    /\ \/ /\ op = "calculate_padding"
          /\ size \in 1..MaxSize
          /\ width = 1 /\ height = 1 /\ comp = ESCPOS_COMP_G
          /\ image_data = [kind |-> "white"]
          /\ pixel_bits = <<>>
       \/ /\ op = "convert_to_bit"
          /\ size = 0
          /\ width = 1 /\ height = 1
          /\ comp \in {ESCPOS_COMP_G, ESCPOS_COMP_GA, ESCPOS_COMP_RGB, ESCPOS_COMP_RGBA}
          /\ \E px \in SamplePixels : image_data = [kind |-> "bytes", data |-> px]
          /\ pixel_bits = <<>>

CalculatePadding ==
    /\ pc = "idle"
    /\ op = "calculate_padding"
    /\ padding_l' = calculate_padding(size).l
    /\ padding_r' = calculate_padding(size).r
    /\ pc' = "done"
    /\ UNCHANGED <<cfg, topv, last_error, rawv, upv, imgv, hist, calls, size,
                   bit, netv>>

ConvertToBit ==
    /\ pc = "idle"
    /\ op = "convert_to_bit"
    /\ bit' = convert_to_bit(image_data, 0, comp)
    /\ pc' = "done"
    /\ UNCHANGED <<cfg, topv, last_error, rawv, upv, imgv, hist, calls, size,
                   padding_l, padding_r, netv>>

NextPure ==
    \/ CalculatePadding
    \/ ConvertToBit

SpecPure == InitPure /\ [][NextPure]_vars

\* ------------------------------------------------------------------------
\* The packer applied to images drawn from bounded sets
\* ------------------------------------------------------------------------
InitPack ==
    /\ Idle
    /\ NoStream
    /\ overlap = 0
    /\ op = "convert_image_to_bits"
    /\ size = 0
    /\ width \in PackWidths
    /\ height \in PackHeights
    /\ comp \in {ESCPOS_COMP_G, ESCPOS_COMP_GA, ESCPOS_COMP_RGB, ESCPOS_COMP_RGBA}
    /\ \E k \in PackKinds : image_data = [kind |-> k]
    /\ \E j \in Junk :
         pixel_bits = [k \in 0..(PackBufSize(width, height) - 1) |-> j]

ConvertImageToBits ==
    /\ pc = "idle"
    /\ op = "convert_image_to_bits"
    /\ pixel_bits' = convert_image_to_bits(pixel_bits, image_data, 0, width,
                                           height, comp)
    /\ bitmap_w' = bitmap_w_out(width)
    /\ bitmap_h' = bitmap_h_out(height)
    /\ reads' = ReadsAfterPack(reads, 0, width, height, comp)
    /\ pc' = "done"
    /\ UNCHANGED <<cfg, topv, last_error, rawv, upv, loaded, y, chunk_height,
                   result, write_failed, chunks, calls, purev, netv>>

NextPack ==
    ConvertImageToBits

SpecPack == InitPack /\ [][NextPack]_vars

\* ------------------------------------------------------------------------
\* escpos_printer_network and escpos_printer_destroy
\* ------------------------------------------------------------------------
\* descriptors the process can hold
Fds == FirstFd..(FirstFd + MaxFds - 1)

\* values socket() returns: -1, or the lowest descriptor that is not open
SocketResults(open) ==
    {-1} \cup {d \in Fds : d \notin open /\ \A e \in Fds : e < d => e \in open}

\* values inet_pton(AF_INET, ...) returns: 1, or 0 for a string that is not
\* a dotted-decimal address (AF_INET is a supported family)
PtonResults == {0, 1}

\* values connect() returns
ConnectResults == {0, -1}

\* values malloc() returns: NULL (0), or an object that is not live
MallocResults(live) ==
    {0} \cup {p \in 1..MaxFds : p \notin live /\ \A q \in 1..MaxFds : q < p => q \in live}

\* return printer (line 40): back with the caller
NetworkReturn ==
    pc' = "idle"

\* lines 17-24: socket(), and the return when it fails
CallNetwork ==
    /\ pc = "idle"
    /\ op' = "network"
    /\ printer' = 0
    /\ fds_before' = fds
    /\ \E r \in SocketResults(fds) :
         /\ sockfd' = r
         /\ oscalls' = <<[fn |-> "socket", res |-> r]>>
         /\ IF r < 0
            THEN /\ last_error' = ESCPOS_ERROR_SOCK
                 /\ fds' = fds
                 /\ NetworkReturn
            ELSE /\ fds' = fds \cup {r}
                 /\ pc' = "network_pton"
                 /\ UNCHANGED last_error
    /\ UNCHANGED <<cfg, ret, rawv, upv, imgv, hist, calls, purev, printers>>

\* variant: an address that does not parse is handed on to connect()
NetworkPton_Unchecked ==
    /\ pc = "network_pton"
    /\ \E r \in PtonResults :
         /\ oscalls' = Append(oscalls, [fn |-> "inet_pton", res |-> r])
         /\ pc' = "network_connect"
         /\ UNCHANGED last_error
    /\ UNCHANGED <<cfg, topv, rawv, upv, imgv, hist, calls, purev, fds,
                   printers, sockfd, printer, fds_before>>

\* lines 26-31: inet_pton(), and the return when it yields 0
NetworkPton ==
    /\ pc = "network_pton"
    /\ \E r \in PtonResults :
         /\ oscalls' = Append(oscalls, [fn |-> "inet_pton", res |-> r])
         /\ IF r = 0
            THEN /\ last_error' = ESCPOS_ERROR_INVALID_ADDR
                 /\ NetworkReturn
            ELSE /\ pc' = "network_connect"
                 /\ UNCHANGED last_error
    /\ UNCHANGED <<cfg, topv, rawv, upv, imgv, hist, calls, purev, fds,
                   printers, sockfd, printer, fds_before>>

\* lines 32-40: connect(), then malloc and printer->sockfd = sockfd; a NULL
\* from malloc is dereferenced
NetworkConnect ==
    /\ pc = "network_connect"
    /\ \E r \in ConnectResults :
         /\ oscalls' = Append(oscalls, [fn |-> "connect", res |-> r])
         /\ IF r # 0
            THEN /\ last_error' = ESCPOS_ERROR_CONNECTION_FAILED
                 /\ NetworkReturn
                 /\ UNCHANGED <<printers, printer>>
            ELSE /\ UNCHANGED last_error
                 /\ \E m \in MallocResults(DOMAIN printers) :
                      IF m = 0
                      THEN /\ pc' = "undefined"
                           /\ UNCHANGED <<printers, printer>>
                      ELSE /\ printers' = [p \in DOMAIN printers \cup {m} |->
                                              IF p = m THEN sockfd ELSE printers[p]]
                           /\ printer' = m
                           /\ NetworkReturn
    /\ UNCHANGED <<cfg, topv, rawv, upv, imgv, hist, calls, purev, fds,
                   sockfd, fds_before>>

\* escpos_printer_destroy of a live printer (lines 43-49)
CallDestroy ==
    /\ pc = "idle"
    /\ op' = "destroy"
    /\ \E p \in DOMAIN printers :
         /\ fds' = fds \ {printers[p]}
         /\ printers' = [q \in DOMAIN printers \ {p} |-> printers[q]]
    /\ UNCHANGED <<cfg, ret, pc, last_error, rawv, upv, imgv, hist, calls,
                   purev, sockfd, printer, oscalls, fds_before>>

InitNet ==
    /\ Idle
    /\ NoStream
    /\ op = "none"
    /\ size = 0
    /\ overlap = 0
    /\ width = 1 /\ height = 1 /\ comp = ESCPOS_COMP_G
    /\ image_data = [kind |-> "white"]
    /\ pixel_bits = <<>>

NextNet ==
    \/ CallNetwork
    \/ NetworkPton
    \/ NetworkConnect
    \/ CallDestroy

SpecNet == InitNet /\ [][NextNet]_vars

\* ------------------------------------------------------------------------
\* Vocabulary of the properties
\* ------------------------------------------------------------------------
\* escpos_printer_raw has just returned to its caller (its frame is still
\* visible)
RawReturned ==
    pc \in {"top_after", "upload_after_header", "upload_after_data", "print_after"}

Min(a, b) ==
    IF a <= b THEN a ELSE b

CeilDiv(a, b) ==
    (a + b - 1) \div b

\* padding that rounds n up to a multiple of 32
PadTotal(n) ==
    IF n % 32 = 0 THEN 0 ELSE 32 - (n % 32)

LastCall ==
    calls[Len(calls)]

\* the calls made for the chunk of cursor value k
CallsOfChunk(k) ==
    SelectSeq(calls, LAMBDA c : c.y = k)

\* the calls escpos_printer_upload made for the chunk of cursor value k
UploadCallsOfChunk(k) ==
    SelectSeq(calls, LAMBDA c : c.y = k /\ c.kind \in {"header", "data"})

\* s starts with a header call followed by data calls at offsets 0, 4, 8, ...
IsUploadPrefix(s) ==
    \A j \in 1..Len(s) :
        /\ s[j].kind = (IF j = 1 THEN "header" ELSE "data")
        /\ s[j].off = (IF j = 1 THEN 0 ELSE 4 * (j - 2))

\* s is one complete cycle for a bitmap of units 4-byte units: the header,
\* every data unit, one print command, every call successful
IsCompleteCycle(s, units) ==
    /\ Len(s) = units + 2
    /\ IsUploadPrefix(SubSeq(s, 1, units + 1))
    /\ s[units + 2].kind = "print"
    /\ \A j \in 1..Len(s) : s[j].res = 0

\* s is one complete cycle of some bitmap
IsCycle(s) ==
    Len(s) >= 2 /\ IsCompleteCycle(s, Len(s) - 2)

\* escpos_printer_network has returned to its caller
NetworkReturned ==
    op = "network" /\ pc = "idle"

\* the system call fn was made by the escpos_printer_network call
Called(fn) ==
    \E j \in 1..Len(oscalls) : oscalls[j].fn = fn

\* what it returned
ResOf(fn) ==
    oscalls[CHOOSE j \in 1..Len(oscalls) : oscalls[j].fn = fn].res

StreamCreated ==
    Called("socket") /\ ResOf("socket") >= 0

AddressParsed ==
    Called("inet_pton") /\ ResOf("inet_pton") = 1

HandshakeDone ==
    Called("connect") /\ ResOf("connect") = 0

\* descriptors owned by live printers
OwnedFds ==
    {printers[p] : p \in DOMAIN printers}

\* ------------------------------------------------------------------------
\* Properties
\* ------------------------------------------------------------------------

\* C1: whenever escpos_printer_raw returns success, the bytes the stream
\* accepted during the call are exactly the message bytes, each once and in
\* order.
C1_SentExactlyOnce ==
    (RawReturned /\ raw_result = 0) => wire = message

\* C2: in every iteration of escpos_printer_image the chunk height handed to
\* the packer is min(chunkCapacity, H - k*printHeight) and lies between 1
\* and chunkCapacity.
C2_ChunkHeightIsMin ==
    op = "image" =>
        \A k \in 1..Len(chunks) :
            /\ chunks[k].height =
                   Min(ESCPOS_CHUNK_DOT_HEIGHT,
                       height - (k - 1) * (ESCPOS_CHUNK_DOT_HEIGHT - overlap))
            /\ chunks[k].height >= 1
            /\ chunks[k].height <= ESCPOS_CHUNK_DOT_HEIGHT

\* C3: when no write fails, escpos_printer_image performs exactly
\* ceil(H / printHeight) cycles (header, all data, one print, in chunk
\* order) and returns success.
C3_AllChunksThenSuccess ==
    (op = "image" /\ pc = "done" /\ loaded /\ ~write_failed) =>
        /\ ret = 0
        /\ Len(chunks) = CeilDiv(height, ESCPOS_CHUNK_DOT_HEIGHT - overlap)
        /\ \A k \in 0..(Len(chunks) - 1) :
               IsCycle(CallsOfChunk(k))
        /\ \A j \in 1..(Len(calls) - 1) : calls[j].y <= calls[j + 1].y

\* C4: a failed upload or print makes escpos_printer_image return failure
\* with no further write: no call follows a failed call and no send follows
\* a failed send; the chunk whose upload failed gets no print command, no
\* later chunk is packed, the chunks before it stay uploaded and printed,
\* and a failed upload leaves IMAGE_UPLOAD_FAILED.
C4_AbortsOnFirstFailure ==
    op = "image" =>
        /\ \A j \in 1..(Len(calls) - 1) : calls[j].res = 0
        /\ write_failed => pc # "raw"
        /\ (pc = "done" /\ calls # <<>> /\ LastCall.res # 0) =>
               /\ ret # 0
               /\ LastCall.y = y
               /\ Len(chunks) = y + 1
               /\ \A k \in 0..(y - 1) :
                      IsCycle(CallsOfChunk(k))
               /\ LastCall.kind \in {"header", "data"} =>
                      /\ \A j \in 1..Len(calls) :
                             ~(calls[j].kind = "print" /\ calls[j].y = y)
                      /\ last_error = ESCPOS_ERROR_IMAGE_UPLOAD_FAILED
        /\ (pc = "done" /\ ret # 0) => (calls # <<>> /\ LastCall.res # 0)

\* a failure in the second chunk's upload: one chunk uploaded and printed
C4_Witness ==
    /\ op = "image" /\ pc = "done" /\ ret # 0
    /\ y = 1
    /\ LastCall.kind = "data" /\ LastCall.res # 0
    /\ last_error = ESCPOS_ERROR_IMAGE_UPLOAD_FAILED
    /\ Len(SelectSeq(calls, LAMBDA c : c.kind = "print")) = 1

C6_PackedLayout ==
    (op = "convert_image_to_bits" /\ pc = "done") =>
        LET lpad == PadTotal(width) \div 2
            rpad == PadTotal(width) - lpad
        IN /\ bitmap_w = width + lpad + rpad
           /\ bitmap_h = height + PadTotal(height)
           /\ bitmap_w % 32 = 0
           /\ bitmap_h % 32 = 0
           /\ \A c \in 0..(bitmap_w - 1) : \A r \in 0..(bitmap_h - 1) :
                  BitOf(pixel_bits[(c * bitmap_h + r) \div 8],
                        7 - ((c * bitmap_h + r) % 8))
                      = (IF lpad <= c /\ c < lpad + width /\ r < height
                         THEN convert_to_bit(image_data,
                                  ((r * width) + (c - lpad)) * comp, comp)
                         ELSE 0)
           /\ (image_data.kind = "white" /\ width % 32 = 0 /\ height % 32 = 0) =>
                  \A b \in 0..(((width * height) \div 8) - 1) : pixel_bits[b] = 0

\* a padded image with a dark pixel packed into a buffer of 0xFF bytes
C6_Witness ==
    /\ op = "convert_image_to_bits" /\ pc = "done"
    /\ bitmap_w > width + 1
    /\ bitmap_h > height
    /\ pixel_bits[PackBufSize(width, height) - 1] = 255
    /\ \E b \in 0..(((bitmap_w * bitmap_h) \div 8) - 1) : pixel_bits[b] # 0

\* C7: a successful upload of a Wp x Hp bitmap makes exactly 1 + Wp*Hp/32
\* calls: the 4-byte header (prefix, Wp/8, Hp/8), then the buffer in 4-byte
\* units at offsets 0, 4, 8, ...; after a failed call it returns failure
\* without a further call.
C7_UploadCallSequence ==
    op = "image" =>
        /\ \A k \in 0..y : IsUploadPrefix(UploadCallsOfChunk(k))
        /\ (pc \in {"raw", "upload_after_header", "upload_after_data"}
                /\ LastCall.kind \in {"header", "data"}) =>
               Len(UploadCallsOfChunk(y)) <= 1 + ((up_w * up_h) \div 32)
        /\ (pc = "raw" /\ LastCall.kind = "header") =>
               /\ total = 4
               /\ message = <<ESCPOS_CMD_DEFINE_DL_BIT_IMAGE[1],
                              ESCPOS_CMD_DEFINE_DL_BIT_IMAGE[2],
                              up_w \div 8, up_h \div 8>>
        /\ (pc = "raw" /\ LastCall.kind = "data") =>
               /\ total = 4
               /\ LastCall.off + 3 < (up_w * up_h) \div 8
               /\ \A j \in 1..4 : message[j] = pixel_bits[LastCall.off + j - 1]
        /\ (pc = "image_after_upload" /\ result = 0) =>
               /\ Len(UploadCallsOfChunk(y)) = 1 + ((up_w * up_h) \div 32)
               /\ \A j \in 1..Len(calls) : calls[j].res = 0
        /\ (pc \in {"upload_after_header", "upload_after_data"}
                /\ raw_result # 0) => LastCall.res # 0
        /\ (pc = "image_after_upload") =>
               /\ (result # 0) <=> (LastCall.res # 0)
               /\ LastCall.kind \in {"header", "data"}
               /\ LastCall.y = y
        /\ \A j \in 1..(Len(calls) - 1) : calls[j].res = 0

\* an upload that returned success
C7_Witness ==
    /\ op = "image"
    /\ pc = "image_after_upload"
    /\ result = 0
    /\ Len(UploadCallsOfChunk(y)) = 33

\* C8: calculate_padding returns left + right = 0 for an aligned size and
\* 32 - (size mod 32) otherwise, left = floor of half of it, right the rest,
\* and size + left + right is the smallest multiple of 32 >= size.
C8_PaddingContract ==
    (op = "calculate_padding" /\ pc = "done") =>
        LET padding == padding_l + padding_r
        IN /\ padding = PadTotal(size)
           /\ padding_l = padding \div 2
           /\ padding_r = padding - padding_l
           /\ 0 <= padding_r - padding_l
           /\ padding_r - padding_l <= 1
           /\ (size + padding) % 32 = 0
           /\ \A m \in size..(size + padding - 1) : m % 32 # 0

\* an odd padding: the extra unit goes to the right
C8_Witness ==
    /\ op = "calculate_padding" /\ pc = "done"
    /\ size = 33
    /\ padding_l = 15
    /\ padding_r = 16

\* C9: escpos_printer_raw returns failure if and only if a send reported an
\* error, and then last_error is SEND_FAILED.
C9_FailsIffSendError ==
    RawReturned =>
        /\ (raw_result # 0) <=> (bytes = -1)
        /\ (raw_result # 0) => last_error = ESCPOS_ERROR_SEND_FAILED

\* C10: a failed upload leaves IMAGE_UPLOAD_FAILED, a failed print leaves
\* IMAGE_PRINT_FAILED, and a failed escpos_printer_image leaves the one of
\* the step that failed.
C10_DistinctFailures ==
    op = "image" =>
        /\ (pc = "image_after_upload" /\ result # 0) =>
               last_error = ESCPOS_ERROR_IMAGE_UPLOAD_FAILED
        /\ (pc = "image_after_print" /\ result # 0) =>
               last_error = ESCPOS_ERROR_IMAGE_PRINT_FAILED
        /\ (pc = "done" /\ ret # 0) =>
               /\ (last_error = ESCPOS_ERROR_IMAGE_UPLOAD_FAILED)
                      <=> (LastCall.kind \in {"header", "data"})
               /\ (last_error = ESCPOS_ERROR_IMAGE_PRINT_FAILED)
                      <=> (LastCall.kind = "print")

\* escpos_printer_image returned failure after a failed print
C10_Witness ==
    /\ op = "image" /\ pc = "done" /\ ret # 0
    /\ LastCall.kind = "print"
    /\ last_error = ESCPOS_ERROR_IMAGE_PRINT_FAILED

\* C11: escpos_printer_network returns a printer if and only if socket(),
\* inet_pton() and connect() all succeeded, and the printer then owns the
\* new descriptor; otherwise it returns NULL, the steps were tried in that
\* order up to the first that failed, and last_error is the error of that
\* step: SOCK, then INVALID_ADDR, then CONNECTION_FAILED.
C11_ConnectResult ==
    NetworkReturned =>
        /\ (printer # 0) <=> (StreamCreated /\ AddressParsed /\ HandshakeDone)
        /\ (printer # 0) =>
               /\ printer \in DOMAIN printers
               /\ printers[printer] = ResOf("socket")
               /\ printers[printer] \in fds
        /\ \A j \in 1..Len(oscalls) :
               oscalls[j].fn = <<"socket", "inet_pton", "connect">>[j]
        /\ ~StreamCreated =>
               /\ last_error = ESCPOS_ERROR_SOCK
               /\ Len(oscalls) = 1
        /\ (StreamCreated /\ ~AddressParsed) =>
               /\ last_error = ESCPOS_ERROR_INVALID_ADDR
               /\ Len(oscalls) = 2
        /\ (StreamCreated /\ AddressParsed /\ ~HandshakeDone) =>
               /\ last_error = ESCPOS_ERROR_CONNECTION_FAILED
               /\ Len(oscalls) = 3

\* a second connect that failed at the handshake while a printer is live
C11_Witness ==
    /\ NetworkReturned
    /\ printer = 0
    /\ StreamCreated /\ AddressParsed /\ Called("connect")
    /\ last_error = ESCPOS_ERROR_CONNECTION_FAILED
    /\ DOMAIN printers # {}

\* C20: after escpos_printer_network has returned failure the open
\* descriptors are those open before the call, and between calls every
\* open descriptor is owned by exactly one live printer.
C20_NoStreamLeftBehind ==
    /\ (NetworkReturned /\ printer = 0) => fds = fds_before
    /\ (op \in {"none", "network", "destroy"} /\ pc = "idle") =>
           /\ fds = OwnedFds
           /\ Cardinality(fds) = Cardinality(DOMAIN printers)

\* C12: for an image of width 1..ESCPOS_MAX_DOT_WIDTH and height >= 1,
\* every call of escpos_printer_upload made by escpos_printer_image gets a
\* bitmap width that is a positive multiple of 32 not above the maximum
\* bit-image width and a bitmap height that is a positive multiple of 32
\* not above the chunk height, and no assertion of upload fails.
C12_UploadPrecondition ==
    (op = "image" /\ 1 <= width /\ width <= ESCPOS_MAX_DOT_WIDTH /\ height >= 1) =>
        /\ pc # "abort"
        /\ pc = "upload" =>
               /\ up_w > 0 /\ up_w % 32 = 0 /\ up_w <= ESCPOS_MAX_DOT_WIDTH
               /\ up_h > 0 /\ up_h % 32 = 0 /\ up_h <= ESCPOS_CHUNK_DOT_HEIGHT

\* C13: every byte of image_data read by the packer during
\* escpos_printer_image lies at an offset in [0, W*H*C): every chunk has
\* start row + chunk height <= H, and the rows of the packed bitmap at or
\* beyond the chunk height are 0.
C13_ReadsInBounds ==
    op = "image" =>
        /\ reads.lo >= 0
        /\ reads.hi < width * height * comp
        /\ \A k \in 1..Len(chunks) :
               chunks[k].start + chunks[k].height <= height
        /\ pc = "upload" =>
               \A c \in 0..(bitmap_w - 1) : \A r \in 0..(bitmap_h - 1) :
                   r >= chunk_height =>
                       BitOf(pixel_bits[((c * bitmap_h) + r) \div 8],
                             7 - (((c * bitmap_h) + r) % 8)) = 0

\* the last, partial chunk of an image was packed up to the last byte of
\* image_data
C13_Witness ==
    /\ op = "image" /\ pc = "upload"
    /\ y >= 1
    /\ chunk_height >= 1 /\ chunk_height < ESCPOS_CHUNK_DOT_HEIGHT
    /\ reads.lo = 0
    /\ reads.hi = (width * height * comp) - 1

\* C14: convert_to_bit returns 1 exactly when the luminance is below 128:
\* the first byte for G and GA, floor((r + g + b) / 3) for RGB and RGBA,
\* whatever the other bytes of the pixel are.
C14_SampleThreshold ==
    (op = "convert_to_bit" /\ pc = "done") =>
        LET px == image_data.data
        IN /\ bit \in {0, 1}
           /\ comp \in {ESCPOS_COMP_G, ESCPOS_COMP_GA} =>
                  ((bit = 1) <=> (px[1] < 128))
           /\ comp \in {ESCPOS_COMP_RGB, ESCPOS_COMP_RGBA} =>
                  ((bit = 1) <=> ((px[1] + px[2] + px[3]) \div 3 < 128))

\* an RGBA pixel of average exactly 128 with an alpha byte of 0 sampled as 0
C14_Witness ==
    /\ op = "convert_to_bit" /\ pc = "done"
    /\ comp = ESCPOS_COMP_RGBA
    /\ image_data.data = <<127, 128, 129, 0>>
    /\ bit = 0

\* C15 as stated: pad(32) = (0, 0), pad(33) = (0, 1), pad(64) = (0, 0).
C15_PadExamples ==
    (op = "calculate_padding" /\ pc = "done") =>
        /\ size = 32 => (padding_l = 0 /\ padding_r = 0)
        /\ size = 33 => (padding_l = 0 /\ padding_r = 1)
        /\ size = 64 => (padding_l = 0 /\ padding_r = 0)

\* C15 as amended: pad(32) = (0, 0), pad(33) = (15, 16), pad(64) = (0, 0).
C15_PadExamplesAmended ==
    (op = "calculate_padding" /\ pc = "done") =>
        /\ size = 32 => (padding_l = 0 /\ padding_r = 0)
        /\ size = 33 => (padding_l = 15 /\ padding_r = 16)
        /\ size = 64 => (padding_l = 0 /\ padding_r = 0)

\* calculate_padding has returned for one of the three sizes, with a
\* padding that is not zero
C15_Witness ==
    /\ op = "calculate_padding" /\ pc = "done"
    /\ size \in {32, 33, 64}
    /\ padding_l + padding_r = 31

\* C16: during escpos_printer_image no write of the packer goes past the
\* scratch buffer of (ESCPOS_MAX_DOT_WIDTH / 8) * ESCPOS_CHUNK_DOT_HEIGHT
\* bytes, for every decoded image of width >= 1 and height >= 1: the padded
\* bitmap of every chunk handed to the packer fits the buffer.
C16_ScratchWritesInBounds ==
    (op = "image" /\ width >= 1 /\ height >= 1) =>
        /\ pc # "undefined"
        /\ \A k \in 1..Len(chunks) :
               chunks[k].height >= 1 =>
                   ((width + PadTotal(width)) * (chunks[k].height + PadTotal(chunks[k].height))) \div 8
                       <= (ESCPOS_MAX_DOT_WIDTH \div 8) * ESCPOS_CHUNK_DOT_HEIGHT

\* the source rows of the chunks whose upload and print both succeeded
PrintedRows ==
    UNION {chunks[k].start..(chunks[k].start + chunks[k].height - 1) :
               k \in {j \in 1..Len(chunks) : IsCycle(CallsOfChunk(j - 1))}}

\* C17: when escpos_printer_image returns success, every source row
\* 0..H-1 lies in the row range of a chunk that was packed, uploaded and
\* printed.
C17_EveryRowPrinted ==
    (op = "image" /\ pc = "done" /\ loaded /\ ret = 0) =>
        \A row \in 0..(height - 1) : row \in PrintedRows

\* C18: escpos_printer_image returns success only if an image was decoded,
\* at least one chunk was uploaded and printed, and every chunk of the
\* image was.
C18_SuccessMeansPrinted ==
    (op = "image" /\ pc = "done" /\ ret = 0) =>
        /\ loaded
        /\ Len(chunks) >= 1
        /\ \A k \in 0..(Len(chunks) - 1) : IsCycle(CallsOfChunk(k))

\* C19: the bytes convert_image_to_bits leaves in the first Wp*Hp/8 bytes
\* of the buffer do not depend on what the buffer held before: every bit
\* index in [0, Wp*Hp) is written by exactly one iteration of the three
\* loop nests, and packing the same image over a buffer of any other
\* initial content gives the same bytes.
C19_IndependentOfBuffer ==
    (op = "convert_image_to_bits" /\ pc = "done") =>
        LET a == PackLocals(image_data, 0, width, height, comp)
            n == bitmap_w * bitmap_h
        IN /\ \A p \in 0..(n - 1) :
                  Cardinality({loop \in {"left", "image", "right"} :
                                   Runs(a, loop, p - LoopPi(a, loop, 0, 0))}) = 1
           /\ \A j \in Junk : \A b \in 0..((n \div 8) - 1) :
                  pixel_bits[b] = PackedByte(j, a, b)

\* a one-column image packed over a buffer of 0xFF bytes: the left padding
\* is cleared and the bytes after the bitmap are untouched
C19_Witness ==
    /\ op = "convert_image_to_bits" /\ pc = "done"
    /\ width = 1
    /\ bitmap_w = 32
    /\ pixel_bits[0] = 0
    /\ pixel_bits[(bitmap_w * bitmap_h) \div 8] = 255

TypeOK ==
    /\ pc \in {"idle", "raw", "top_after", "upload", "upload_after_header",
               "upload_after_data",
               "image_after_upload", "print_after", "image_after_print",
               "image_while", "done", "abort", "undefined"}
    /\ ret \in {-1, 0, 1}

====
